---- MODULE Spec2Model ----
(***************************************************************************)
(* Tile engine of the Julia-set renderer (src/unnamed/part_001, the file   *)
(* that starts at line 265): the shared TileCache, the per-tile tasks of   *)
(* generateJuliaSet, its closer goroutine, and the wsHandler session loop. *)
(*                                                                         *)
(* Conventions                                                             *)
(*  - float64 values are fixed-point integers counting units of 10^-7, so  *)
(*    that the "%f" (six decimals) of getTileKey is a real rounding.       *)
(*  - a *Tile is the id of the task that allocated it; heap maps the ids   *)
(*    of the allocated tiles to their fields.                              *)
(*  - the PNG bytes of a tile are represented by the tuple of the values   *)
(*    generateJuliaTile reads to compute them (the evaluator and the       *)
(*    coloring routines are deterministic functions of these).             *)
(*  - time.Time values are compared by Before() through their monotonic    *)
(*    reading, one machine word: a timestamp is an integer.                *)
(***************************************************************************)
EXTENDS Integers, Sequences, FiniteSets, TLC

\* ---------------------------------------------------------------- bounds
NumSessions == 2
MaxBatches == 2
MaxTiles == 3
MaxRequests == 3
MaxLiveRequests == 2
MaxTime == 3
NumRequests == 2
MaxIterations == 3
MaxJuliaTiles == 3

\* ------------------------------------------------------ program constants
TileSize == 128
\* 1000 in the source (both servers), scaled down: the code uses it only in
\* "Len() > MaxCacheSize" and "len(tiles) > MaxCacheSize", "len(tiles)-MaxCacheSize"
MaxCacheSize == 1
\* TileSize of part_000
TileSize_0 == 256
\* "make(chan *Tile, 100)" in part_000, scaled down so that a send can find
\* the buffer full
ChanCap == 1

Sessions == 1..NumSessions
Batches == 1..MaxBatches
Slots == 1..MaxTiles
BatchIds == Sessions \X Batches
TaskIds == Sessions \X Batches \X Slots

NoTid == <<0, 0, 0>>
NoKey == <<>>

Min(a, b) == IF a < b THEN a ELSE b

\* ------------------------------------------------------------ the inputs
\* c = -0.8+0.156i, center 0, coloring 1, 100 iterations
MkCanvas(zoom, lod, width, height) ==
    [cRe |-> -8000000, cIm |-> 1560000, ctrRe |-> 0, ctrIm |-> 0,
     zoom |-> zoom, coloring |-> 1, maxIter |-> 100,
     width |-> width, height |-> height, lod |-> lod]

MkParams(zoom, lod) == MkCanvas(zoom, lod, 300, 200)

Offset0 == [x |-> 0, y |-> 0]

\* An entry of request.Tiles: a string of which Sscanf("%d,%d") converts the
\* first n numbers: "0,0", "256,128" and the malformed "128,"
T00 == [n |-> 2, x |-> 0, y |-> 0]
T21 == [n |-> 2, x |-> 256, y |-> 128]
T1x == [n |-> 1, x |-> 128, y |-> 0]

\* An inbound frame: json is FALSE when json.Unmarshal rejects it.
Frame(params, tiles) ==
    [json |-> TRUE, params |-> params, offset |-> Offset0, tiles |-> tiles]

BadFrame ==
    [json |-> FALSE, params |-> MkParams(1, 1), offset |-> Offset0, tiles |-> <<>>]

\* The frames the clients send. zoom is 0.0000001 or 0.0000004 (1 or 4 units
\* of 10^-7), lod is 1 or the out-of-range 0.
Messages ==
    {Frame(MkParams(1, 1), <<T00, T21>>),
     Frame(MkParams(1, 1), <<T21>>),
     Frame(MkParams(4, 1), <<T21>>),
     Frame(MkParams(1, 0), <<T1x>>),
     BadFrame}

NoMsg == BadFrame

\* a frame whose canvas ends where its tile "256,128" begins (twice in the
\* list, as a client redrawing its border sends it)
EdgeFrame == Frame(MkCanvas(1, 1, 256, 128), <<T00, T21, T21>>)

\* ------------------------------------------------------- pure functions
\* fmt "%f": six decimals, i.e. the nearest multiple of 10 units
Fmt6(v) == IF v >= 0 THEN (v + 5) \div 10 ELSE 0 - ((5 - v) \div 10)

\* a key that leaves the tile coordinates out
getTileKeyNoXY(params, x, y, lod, offset) ==
    <<Fmt6(params.cRe), Fmt6(params.cIm), Fmt6(params.ctrRe), Fmt6(params.ctrIm),
      Fmt6(params.zoom), params.maxIter, params.width, params.height,
      params.coloring, 0, 0, lod, Fmt6(offset.x), Fmt6(offset.y)>>

\* "%d" of x, y, lod is exact
getTileKey(params, x, y, lod, offset) ==
    <<Fmt6(params.cRe), Fmt6(params.cIm), Fmt6(params.ctrRe), Fmt6(params.ctrIm),
      Fmt6(params.zoom), params.maxIter, params.width, params.height,
      params.coloring, x, y, lod, Fmt6(offset.x), Fmt6(offset.y)>>

\* fmt.Sscanf(tile, "%d,%d", &x, &y) on x, y freshly declared (zero); the
\* error is dropped, the variables keep what was converted before it.
SscanfXY(str) ==
    [x |-> IF str.n >= 1 THEN str.x ELSE 0, y |-> IF str.n >= 2 THEN str.y ELSE 0]

\* the loop that builds requestedTiles from request.Tiles (unclamped params)
BuildRequests(params, tiles) ==
    [i \in 1..Len(tiles) |->
        [x |-> SscanfXY(tiles[i]).x, y |-> SscanfXY(tiles[i]).y, lod |-> params.lod]]

\* "if params.LOD < 1 { params.LOD = 1 }"
ValidateParams(params) ==
    IF params.lod < 1 THEN [params EXCEPT !.lod = 1] ELSE params

\* squared distance of a request's origin to (Width/2, Height/2), integer halves
Dist(r, params) ==
    (r.x - params.width \div 2) * (r.x - params.width \div 2)
    + (r.y - params.height \div 2) * (r.y - params.height \div 2)

\* a less function that prefers the farther tile
LessFarthestFirst(a, b, params) ==
    IF a.lod # b.lod THEN a.lod < b.lod ELSE Dist(a, params) > Dist(b, params)

\* the less function handed to sort.Slice
Less(a, b, params) ==
    IF a.lod # b.lod THEN a.lod < b.lod ELSE Dist(a, params) < Dist(b, params)

Swap(data, i, j) == [data EXCEPT ![i] = data[j], ![j] = data[i]]

\* sort.Slice on fewer than 7 elements is a plain insertion sort
RECURSIVE Sink(_, _, _)
Sink(data, j, params) ==
    IF j > 1 /\ Less(data[j], data[j - 1], params)
    THEN Sink(Swap(data, j, j - 1), j - 1, params)
    ELSE data

RECURSIVE InsertionSort(_, _, _)
InsertionSort(data, i, params) ==
    IF i > Len(data) THEN data
    ELSE InsertionSort(Sink(data, i, params), i + 1, params)

SortSlice(data, params) == InsertionSort(data, 2, params)

\* a tile width that is not clipped at the canvas edge
TileWidthUnclipped(params, tx) == TileSize

\* tileWidth, tileHeight of a task
TileWidth(params, tx) == Min(TileSize, params.width - tx)
TileHeight(params, ty) == Min(TileSize, params.height - ty)

\* what the pixel loop of generateJuliaTile reads: the encoded image
RenderImage(params, tx, ty, tw, th, offset) ==
    <<params.cRe, params.cIm, params.ctrRe, params.ctrIm, params.zoom,
      params.maxIter, params.width, params.height, params.coloring,
      tx, ty, tw, th, offset.x, offset.y>>

\* png.Encode rejects an image with no pixels ("invalid image size") before it
\* writes anything; image.Rect swaps negative bounds, so only 0 gives none
EncodeFails(tw, th) == tw = 0 \/ th = 0

\* "png.Encode(&buf, img)", the error dropped, then buf.Bytes()
PngEncode(img, tw, th) == IF EncodeFails(tw, th) THEN <<>> ELSE img

generateJuliaTile(params, tx, ty, tw, th, lod, offset, t) ==
    [X |-> tx, Y |-> ty, Width |-> tw, Height |-> th, LOD |-> lod,
     Image |-> PngEncode(RenderImage(params, tx, ty, tw, th, offset), tw, th),
     LastAccessed |-> t]

\* ---------------------------------------------------------------- state
VARIABLES
    sess,     \* per connection: wsHandler's position, its batch count, the frame
              \* read last, whether a write has failed
    sched,    \* per batch: generateJuliaSet and its closer goroutine, the channel;
              \* asked: requestedTiles as passed in; after: the batches whose
              \* channel was closed when this one started
    tasks,    \* per launched tile goroutine: its position and locals
    cache,    \* tileCache.cache: key -> *Tile
    heap,     \* the allocated Tile objects
    now,      \* the last reading of the clock
    out,      \* per connection: the tile messages written so far
    deleted,  \* keys an entry of which tileCache.Delete has removed
    serial,   \* no two calls of getCachedTile/cacheTile have overlapped so far
    budget    \* the number of tiles the clients may still request

\* the older server of part_000: juliaHandler, its generateJuliaSet and
\* cleanupCache, and the sync.Map they share
VARIABLES
    jh,       \* per request: juliaHandler's position, params, fullImage, response
    jgen,     \* per request: generateJuliaSet, its channel, its cleanupCache
    jtasks,   \* per launched tile goroutine: its position and locals
    jcache,   \* tileCache (sync.Map): key -> *Tile
    jheap,    \* the allocated Tile objects
    jnow      \* the last reading of the clock

\* one run of the pixel loop body of generateJuliaTile
VARIABLES
    pixel     \* the locals: c, z, i, the pixel's coordinates, the color set

wsvars == <<sess, sched, tasks, cache, heap, now, out, deleted, serial, budget>>
jvars == <<jh, jgen, jtasks, jcache, jheap, jnow>>
vars == <<wsvars, jvars, pixel>>

NoTask ==
    [pc |-> "none", x |-> 0, y |-> 0, lod |-> 0, w |-> 0, h |-> 0,
     hit |-> FALSE, tile |-> NoTid, stamp |-> 0, oldest |-> NoKey]

NoSched ==
    [pc |-> "none", params |-> MkParams(1, 1), offset |-> Offset0,
     asked |-> <<>>, reqs |-> <<>>, wg |-> 0, after |-> {}]

\* ------------------------------------------- part_000: inputs and state
\* JuliaParams of part_000: c = -0.8+0.156i, center 0, zoom 0.0000001,
\* coloring 1, 100 iterations, no offset
MkJulia(width, height) ==
    [cRe |-> -8000000, cIm |-> 1560000, ctrRe |-> 0, ctrIm |-> 0,
     zoom |-> 1, coloring |-> 1, maxIter |-> 100,
     width |-> width, height |-> height, offsetX |-> 0, offsetY |-> 0]

\* a request body: json is FALSE when the decoder rejects it
Body(params) == [json |-> TRUE, params |-> params]
BadBody == [json |-> FALSE, params |-> MkJulia(0, 0)]

\* the bodies the clients post: canvases of 2x1, 1x2 and 1x1 tiles
Bodies ==
    {Body(MkJulia(300, 200)), Body(MkJulia(200, 300)), Body(MkJulia(200, 200)), BadBody}

\* tilesX, tilesY of generateJuliaSet
TilesX(params) == (params.width + TileSize_0 - 1) \div TileSize_0
TilesY(params) == (params.height + TileSize_0 - 1) \div TileSize_0

\* the tile coordinates of the loops of generateJuliaSet
Grid(params) == (0..(TilesX(params) - 1)) \X (0..(TilesY(params) - 1))

RequestIds == 1..NumRequests
JTaskIds == RequestIds \X UNION {Grid(b.params) : b \in Bodies}

NoJTask == [pc |-> "none", hit |-> FALSE, tile |-> <<>>]

NoGen ==
    [pc |-> "none", wg |-> 0, buf |-> <<>>, closed |-> FALSE,
     base |-> <<>>, victims |-> <<>>]

NoHandler ==
    [pc |-> "idle", params |-> MkJulia(0, 0), fullImage |-> <<>>,
     status |-> 0, body |-> <<>>]

\* no request has arrived yet, the sync.Map is empty
JuliaIdle ==
    /\ jh = [r \in RequestIds |-> NoHandler]
    /\ jgen = [r \in RequestIds |-> NoGen]
    /\ jtasks = [t \in JTaskIds |-> NoJTask]
    /\ jcache = <<>>
    /\ jheap = <<>>
    /\ jnow = 0

NoPixel ==
    [pc |-> "none", c |-> <<0, 0>>, point |-> <<0, 0>>, z |-> <<0, 0>>, i |-> 0,
     maxIter |-> 0, coloring |-> 0, x |-> 0, y |-> 0, rgba |-> <<>>]

\* no pixel is being computed
PixelIdle == pixel = NoPixel

Start(n) ==
    /\ sess = [s \in Sessions |-> [st |-> "AwaitingMessage", batch |-> 0, msg |-> NoMsg, werr |-> FALSE]]
    /\ sched = [b \in BatchIds |-> NoSched]
    /\ tasks = [t \in TaskIds |-> NoTask]
    /\ cache = <<>>
    /\ heap = <<>>
    /\ now = 0
    /\ out = [s \in Sessions |-> <<>>]
    /\ deleted = {}
    /\ serial = TRUE
    /\ budget = n

Init == Start(MaxRequests) /\ JuliaIdle /\ PixelIdle

\* ------------------------------------------------------------- helpers
BatchOf(t) == <<t[1], t[2]>>
TaskKey(t) ==
    getTileKey(sched[BatchOf(t)].params, tasks[t].x, tasks[t].y, tasks[t].lod,
               sched[BatchOf(t)].offset)

\* a task is inside getCachedTile (after its lookup) or inside cacheTile (after its Set)
InCacheOp(tk) == tk.pc \in {"now", "touch", "reput", "len", "scan", "evict"}
Overlap(tks) == Cardinality({t \in TaskIds : InCacheOp(tks[t])}) > 1

\* time.Now(): the monotonic clock; every reading is later than the one before
\* (equal readings would only widen the choice among the oldest entries)
Clock == {t \in {now + 1} : t <= MaxTime}

\* a scan that keeps the entry accessed last instead
Newest ==
    IF DOMAIN cache = {} THEN {NoKey}
    ELSE {k \in DOMAIN cache :
            \A k2 \in DOMAIN cache :
                heap[cache[k]].LastAccessed >= heap[cache[k2]].LastAccessed}

\* the entries a scan of the map can end with: one with the least LastAccessed
\* (the first of them in the iteration order, which Go leaves unspecified)
Oldest ==
    IF DOMAIN cache = {} THEN {NoKey}
    ELSE {k \in DOMAIN cache :
            \A k2 \in DOMAIN cache :
                heap[cache[k]].LastAccessed <= heap[cache[k2]].LastAccessed}

MapSet(m, k, v) == [x \in DOMAIN m \cup {k} |-> IF x = k THEN v ELSE m[x]]
MapDelete(m, k) == [x \in DOMAIN m \ {k} |-> m[x]]

\* ------------------------------------------------- wsHandler, one connection
\* conn.ReadMessage() returns a frame
ReadMessage(s) ==
    /\ sess[s].st = "AwaitingMessage"
    /\ sess[s].batch < MaxBatches
    /\ \E m \in Messages :
          /\ Len(m.tiles) <= budget
          /\ budget' = budget - Len(m.tiles)
          /\ sess' = [sess EXCEPT ![s].st = "Decoding", ![s].msg = m]
    /\ UNCHANGED <<sched, tasks, cache, heap, now, out, deleted, serial, jvars, pixel>>

\* conn.ReadMessage() returns an error: the handler returns
ReadError(s) ==
    /\ sess[s].st = "AwaitingMessage"
    /\ sess' = [sess EXCEPT ![s].st = "Closed"]
    /\ UNCHANGED <<sched, tasks, cache, heap, now, out, deleted, serial, budget, jvars, pixel>>

\* json.Unmarshal returns an error: the handler returns
DecodeError(s) ==
    /\ sess[s].st = "Decoding"
    /\ ~sess[s].msg.json
    /\ sess' = [sess EXCEPT ![s].st = "Closed"]
    /\ UNCHANGED <<sched, tasks, cache, heap, now, out, deleted, serial, budget, jvars, pixel>>

\* the frame decodes: build the requests, validate, make the channel and
\* start generateJuliaSet
StartBatch(s) ==
    /\ sess[s].st = "Decoding"
    /\ sess[s].msg.json
    /\ LET m == sess[s].msg
           b == sess[s].batch + 1
       IN /\ sess' = [sess EXCEPT ![s].st = "Streaming", ![s].batch = b]
          /\ sched' = [sched EXCEPT ![<<s, b>>] =
                          [pc |-> "sort", params |-> ValidateParams(m.params),
                           offset |-> m.offset,
                           asked |-> BuildRequests(m.params, m.tiles),
                           reqs |-> BuildRequests(m.params, m.tiles),
                           wg |-> 0,
                           after |-> {c \in BatchIds : sched[c].pc = "closed"}]]
    /\ UNCHANGED <<tasks, cache, heap, now, out, deleted, serial, budget, jvars, pixel>>

\* a range loop that ends as soon as no tile is waiting to be received
RangeEndsWhenIdle(s) ==
    ~\E t \in TaskIds : BatchOf(t) = <<s, sess[s].batch>> /\ tasks[t].pc = "send"

\* "for tile := range ch" ends: the channel of the current batch is closed
RangeEnds(s) == sched[<<s, sess[s].batch>>].pc = "closed"

StreamEnd(s) ==
    /\ sess[s].st = "Streaming"
    /\ RangeEnds(s)
    /\ sess' = [sess EXCEPT ![s].st = "AwaitingMessage"]
    /\ UNCHANGED <<sched, tasks, cache, heap, now, out, deleted, serial, budget, jvars, pixel>>

TileMessage(b, tile) ==
    [batch |-> b, x |-> tile.X, y |-> tile.Y, width |-> tile.Width,
     height |-> tile.Height, lod |-> tile.LOD, image |-> tile.Image]

\* task t's send on the unbuffered channel meets the receive of the range
\* loop; the task returns (wg.Done) and the session writes the message,
\* which succeeds or fails
Deliver(s, t) ==
    /\ sess[s].st = "Streaming"
    /\ BatchOf(t) = <<s, sess[s].batch>>
    /\ tasks[t].pc = "send"
    /\ sched[BatchOf(t)].pc # "closed"
    /\ tasks' = [tasks EXCEPT ![t].pc = "done"]
    /\ sched' = [sched EXCEPT ![BatchOf(t)].wg = @ - 1]
    /\ \/ /\ out' = [out EXCEPT ![s] = Append(@, TileMessage(t[2], heap[tasks[t].tile]))]
          /\ UNCHANGED sess
       \/ /\ sess' = [sess EXCEPT ![s].st = "Closed", ![s].werr = TRUE]
          /\ UNCHANGED out
    /\ UNCHANGED <<cache, heap, now, deleted, serial, budget, jvars, pixel>>

\* ------------------------------------------- generateJuliaSet, one batch
\* sort.Slice, then one goroutine per request in the sorted order (wg.Add(1)
\* before each), then the closer goroutine; task i is the i-th one launched
Schedule(b) ==
    /\ sched[b].pc = "sort"
    /\ LET sorted == SortSlice(sched[b].reqs, sched[b].params)
       IN /\ sched' = [sched EXCEPT ![b].reqs = sorted, ![b].pc = "wait",
                                    ![b].wg = Len(sorted)]
          /\ tasks' = [t \in TaskIds |->
                          IF BatchOf(t) = b /\ t[3] <= Len(sorted)
                          THEN [NoTask EXCEPT !.pc = "start", !.x = sorted[t[3]].x,
                                              !.y = sorted[t[3]].y, !.lod = sorted[t[3]].lod]
                          ELSE tasks[t]]
    /\ UNCHANGED <<sess, cache, heap, now, out, deleted, serial, budget, jvars, pixel>>

\* a Wait that does not wait
WaitReturnsEarly(b) == TRUE

\* wg.Wait() returns when the counter is zero
WaitReturns(b) == sched[b].wg = 0

\* the closer goroutine: wg.Wait(); close(ch)
CloseChannel(b) ==
    /\ sched[b].pc = "wait"
    /\ WaitReturns(b)
    /\ sched' = [sched EXCEPT ![b].pc = "closed"]
    /\ UNCHANGED <<sess, tasks, cache, heap, now, out, deleted, serial, budget, jvars, pixel>>

\* ------------------------------------------------ one tile goroutine
\* tileWidth, tileHeight; getCachedTile: key, tileCache.Get(key)
TaskGet(t) ==
    /\ tasks[t].pc = "start"
    /\ LET p == sched[BatchOf(t)].params
           k == TaskKey(t)
           tk == [tasks[t] EXCEPT !.w = TileWidth(p, tasks[t].x),
                                  !.h = TileHeight(p, tasks[t].y)]
       IN tasks' = [tasks EXCEPT ![t] =
                       IF k \in DOMAIN cache
                       THEN [tk EXCEPT !.pc = "now", !.hit = TRUE, !.tile = cache[k]]
                       ELSE [tk EXCEPT !.pc = "render"]]
    /\ serial' = (serial /\ ~Overlap(tasks'))
    /\ UNCHANGED <<sess, sched, cache, heap, now, out, deleted, budget, jvars, pixel>>

\* getCachedTile: the call of time.Now() in "tile.LastAccessed = time.Now()"
TaskNow(t) ==
    /\ tasks[t].pc = "now"
    /\ \E c \in Clock :
          /\ now' = c
          /\ tasks' = [tasks EXCEPT ![t].pc = "touch", ![t].stamp = c]
    /\ UNCHANGED <<sess, sched, cache, heap, out, deleted, serial, budget, jvars, pixel>>

\* getCachedTile: the store to tile.LastAccessed, with no lock held
TaskTouch(t) ==
    /\ tasks[t].pc = "touch"
    /\ heap' = [heap EXCEPT ![tasks[t].tile].LastAccessed = tasks[t].stamp]
    /\ tasks' = [tasks EXCEPT ![t].pc = "reput"]
    /\ UNCHANGED <<sess, sched, cache, now, out, deleted, serial, budget, jvars, pixel>>

\* getCachedTile: tileCache.Set(key, tile); return
TaskReput(t) ==
    /\ tasks[t].pc = "reput"
    /\ cache' = MapSet(cache, TaskKey(t), tasks[t].tile)
    /\ tasks' = [tasks EXCEPT ![t].pc = "send"]
    /\ UNCHANGED <<sess, sched, heap, now, out, deleted, serial, budget, jvars, pixel>>

\* generateJuliaTile: the pixel loop, the encoding, the new Tile
TaskRender(t) ==
    /\ tasks[t].pc = "render"
    /\ LET b == sched[BatchOf(t)]
           tk == tasks[t]
       IN \E c \in Clock :
             /\ now' = c
             /\ heap' = MapSet(heap, t,
                    generateJuliaTile(b.params, tk.x, tk.y, tk.w, tk.h, tk.lod, b.offset, c))
    /\ tasks' = [tasks EXCEPT ![t].pc = "put", ![t].tile = t]
    /\ UNCHANGED <<sess, sched, cache, out, deleted, serial, budget, jvars, pixel>>

\* cacheTile: key from the tile's own X, Y, LOD; tileCache.Set(key, tile)
TaskPut(t) ==
    /\ tasks[t].pc = "put"
    /\ LET b == sched[BatchOf(t)]
           tile == heap[tasks[t].tile]
       IN cache' = MapSet(cache, getTileKey(b.params, tile.X, tile.Y, tile.LOD, b.offset),
                          tasks[t].tile)
    /\ tasks' = [tasks EXCEPT ![t].pc = "len"]
    /\ serial' = (serial /\ ~Overlap(tasks'))
    /\ UNCHANGED <<sess, sched, heap, now, out, deleted, budget, jvars, pixel>>

\* cacheTile: "if tileCache.Len() > MaxCacheSize"
OverCapacity(n) == n > MaxCacheSize

TaskLen(t) ==
    /\ tasks[t].pc = "len"
    /\ tasks' = [tasks EXCEPT ![t].pc =
                    IF OverCapacity(Cardinality(DOMAIN cache)) THEN "scan" ELSE "send"]
    /\ UNCHANGED <<sess, sched, cache, heap, now, out, deleted, serial, budget, jvars, pixel>>

\* cacheTile: the scan for oldestKey under the read lock
TaskScan(t) ==
    /\ tasks[t].pc = "scan"
    /\ \E k \in Oldest : tasks' = [tasks EXCEPT ![t].pc = "evict", ![t].oldest = k]
    /\ UNCHANGED <<sess, sched, cache, heap, now, out, deleted, serial, budget, jvars, pixel>>

\* a Delete that also releases the image of the tile it removes
TaskEvictAndFree(t) ==
    /\ tasks[t].pc = "evict"
    /\ cache' = MapDelete(cache, tasks[t].oldest)
    /\ heap' = IF tasks[t].oldest \in DOMAIN cache
               THEN [heap EXCEPT ![cache[tasks[t].oldest]].Image = <<>>] ELSE heap
    /\ deleted' = IF tasks[t].oldest \in DOMAIN cache
                  THEN deleted \cup {tasks[t].oldest} ELSE deleted
    /\ tasks' = [tasks EXCEPT ![t].pc = "send", ![t].oldest = NoKey]
    /\ UNCHANGED <<sess, sched, now, out, serial, budget, jvars, pixel>>

\* cacheTile: tileCache.Delete(oldestKey); return
TaskEvict(t) ==
    /\ tasks[t].pc = "evict"
    /\ cache' = MapDelete(cache, tasks[t].oldest)
    /\ deleted' = IF tasks[t].oldest \in DOMAIN cache
                  THEN deleted \cup {tasks[t].oldest} ELSE deleted
    /\ tasks' = [tasks EXCEPT ![t].pc = "send", ![t].oldest = NoKey]
    /\ UNCHANGED <<sess, sched, heap, now, out, serial, budget, jvars, pixel>>

\* -------------------------------------------------------- specification
SessionStep(s) ==
    \/ ReadMessage(s)
    \/ ReadError(s)
    \/ DecodeError(s)
    \/ StartBatch(s)
    \/ StreamEnd(s)
    \/ \E t \in TaskIds : Deliver(s, t)

SchedStep(b) ==
    \/ Schedule(b)
    \/ CloseChannel(b)

TaskStep(t) ==
    \/ TaskGet(t)
    \/ TaskNow(t)
    \/ TaskTouch(t)
    \/ TaskReput(t)
    \/ TaskRender(t)
    \/ TaskPut(t)
    \/ TaskLen(t)
    \/ TaskScan(t)
    \/ TaskEvict(t)

Next ==
    \/ \E s \in Sessions : SessionStep(s)
    \/ \E b \in BatchIds : SchedStep(b)
    \/ \E t \in TaskIds : TaskStep(t)

Spec == Init /\ [][Next]_vars

\* Every goroutine that can take a step is scheduled in the end: the tile
\* goroutines, generateJuliaSet and its closer, and the handler loops once a
\* frame has arrived. When a frame arrives, and whether a connection fails, is
\* up to the client.
HandlerStep(s) ==
    \/ DecodeError(s)
    \/ StartBatch(s)
    \/ StreamEnd(s)
    \/ \E t \in TaskIds : Deliver(s, t)

Fairness ==
    /\ \A t \in TaskIds : WF_vars(TaskStep(t))
    /\ \A b \in BatchIds : WF_vars(SchedStep(b))
    /\ \A s \in Sessions : WF_vars(HandlerStep(s))

\* generateJuliaSet as a function of its arguments: any slice of requests of
\* up to MaxTiles entries, of either lod, on a 300x200 or a 257x128 canvas
Requests == [x : {0, 128, 256}, y : {0, 128}, lod : {1, 2}]
RequestLists == UNION {[1..n -> Requests] : n \in 0..MaxTiles}
Canvases == {MkCanvas(1, 1, 300, 200), MkCanvas(1, 1, 257, 128)}

SchedInit ==
    /\ \E p \in Canvases, l \in RequestLists :
          sched = [b \in BatchIds |->
                     IF b = <<1, 1>>
                     THEN [NoSched EXCEPT !.pc = "sort", !.params = p,
                                          !.asked = l, !.reqs = l]
                     ELSE NoSched]
    /\ sess = [s \in Sessions |->
                 [st |-> IF s = 1 THEN "Streaming" ELSE "AwaitingMessage",
                  batch |-> IF s = 1 THEN 1 ELSE 0, msg |-> NoMsg, werr |-> FALSE]]
    /\ tasks = [t \in TaskIds |-> NoTask]
    /\ cache = <<>>
    /\ heap = <<>>
    /\ now = 0
    /\ out = [s \in Sessions |-> <<>>]
    /\ deleted = {}
    /\ serial = TRUE
    /\ budget = 0
    /\ JuliaIdle
    /\ PixelIdle

SchedNext == \E b \in BatchIds : Schedule(b)

SchedSpec == SchedInit /\ [][SchedNext]_vars

\* the same system, the clients requesting MaxLiveRequests tiles at most
LiveInit == Start(MaxLiveRequests) /\ JuliaIdle /\ PixelIdle

FairSpec == LiveInit /\ [][Next]_vars /\ Fairness

\* the same system once connection 1 has read EdgeFrame, the clients
\* requesting no other tile
EdgeInit ==
    /\ sess = [s \in Sessions |->
                 IF s = 1
                 THEN [st |-> "Decoding", batch |-> 0, msg |-> EdgeFrame, werr |-> FALSE]
                 ELSE [st |-> "AwaitingMessage", batch |-> 0, msg |-> NoMsg, werr |-> FALSE]]
    /\ sched = [b \in BatchIds |-> NoSched]
    /\ tasks = [t \in TaskIds |-> NoTask]
    /\ cache = <<>>
    /\ heap = <<>>
    /\ now = 0
    /\ out = [s \in Sessions |-> <<>>]
    /\ deleted = {}
    /\ serial = TRUE
    /\ budget = 0
    /\ JuliaIdle
    /\ PixelIdle

EdgeSpec == EdgeInit /\ [][Next]_vars

\* ------------------------------------------------- part_000: the server
\* getTileKey of part_000; "%f" of float64(x) is exact for an int
getTileKey_0(params, x, y) ==
    <<Fmt6(params.cRe), Fmt6(params.cIm), Fmt6(params.ctrRe), Fmt6(params.ctrIm),
      Fmt6(params.zoom), params.maxIter, params.width, params.height,
      params.offsetX, params.offsetY, params.coloring, x, y>>

\* generateJuliaTile of part_000: a TileSize x TileSize image, LastUsed zero
generateJuliaTile_0(params, tx, ty) ==
    [X |-> tx, Y |-> ty, Zoom |-> params.zoom,
     Image |-> <<params.cRe, params.cIm, params.ctrRe, params.ctrIm, params.zoom,
                 params.maxIter, params.width, params.height, params.offsetX,
                 params.offsetY, params.coloring, tx, ty>>,
     LastUsed |-> 0]

RECURSIVE SumTiles(_)
SumTiles(rs) ==
    IF rs = {} THEN 0
    ELSE LET r == CHOOSE x \in rs : TRUE
         IN Cardinality(Grid(jh[r].params)) + SumTiles(rs \ {r})

\* the tiles of the canvases posted so far
JuliaRequested == SumTiles({r \in RequestIds : jh[r].pc \in {"range", "done"} /\ jh[r].status # 400})

JTaskKey(t) == getTileKey_0(jh[t[1]].params, t[2][1], t[2][2])

\* juliaHandler: the body does not decode; http.Error, return
JuliaDecodeError(r) ==
    /\ jh[r].pc = "idle"
    /\ \E b \in Bodies :
          /\ ~b.json
          /\ jh' = [jh EXCEPT ![r].pc = "done", ![r].status = 400]
    /\ UNCHANGED <<wsvars, pixel, jgen, jtasks, jcache, jheap, jnow>>

\* juliaHandler: the body decodes; make the channel, go generateJuliaSet,
\* image.NewRGBA
JuliaStart(r) ==
    /\ jh[r].pc = "idle"
    /\ \E b \in Bodies :
          /\ b.json
          /\ JuliaRequested + Cardinality(Grid(b.params)) <= MaxJuliaTiles
          /\ jh' = [jh EXCEPT ![r].pc = "range", ![r].params = b.params]
    /\ jgen' = [jgen EXCEPT ![r].pc = "launch"]
    /\ UNCHANGED <<wsvars, pixel, jtasks, jcache, jheap, jnow>>

\* juliaHandler: "for tile := range modifiedTiles" receives a tile; draw.Draw
\* at (tile.X*TileSize, tile.Y*TileSize)
JuliaReceive(r) ==
    /\ jh[r].pc = "range"
    /\ jgen[r].buf # <<>>
    /\ LET tile == jheap[Head(jgen[r].buf)]
       IN jh' = [jh EXCEPT ![r].fullImage = MapSet(@, <<tile.X, tile.Y>>, tile.Image)]
    /\ jgen' = [jgen EXCEPT ![r].buf = Tail(@)]
    /\ UNCHANGED <<wsvars, pixel, jtasks, jcache, jheap, jnow>>

\* a range loop that ends as soon as the buffer is empty
JRangeEndsWhenEmpty(r) == jgen[r].buf = <<>>

\* the range loop ends: the channel is closed and drained
JRangeEnds(r) == jgen[r].buf = <<>> /\ jgen[r].closed

\* juliaHandler: after the loop, png.Encode(w, fullImage)
JuliaRespond(r) ==
    /\ jh[r].pc = "range"
    /\ JRangeEnds(r)
    /\ jh' = [jh EXCEPT ![r].pc = "done", ![r].status = 200, ![r].body = jh[r].fullImage]
    /\ UNCHANGED <<wsvars, pixel, jgen, jtasks, jcache, jheap, jnow>>

\* generateJuliaSet: the two loops, wg.Add(1) and one goroutine per tile
JuliaSchedule(r) ==
    /\ jgen[r].pc = "launch"
    /\ jgen' = [jgen EXCEPT ![r].pc = "wait",
                            ![r].wg = TilesX(jh[r].params) * TilesY(jh[r].params)]
    /\ jtasks' = [t \in JTaskIds |->
                     IF t[1] = r /\ t[2] \in Grid(jh[r].params)
                     THEN [NoJTask EXCEPT !.pc = "start"] ELSE jtasks[t]]
    /\ UNCHANGED <<wsvars, pixel, jh, jcache, jheap, jnow>>

\* generateJuliaSet: wg.Wait(); close(modifiedTiles); go cleanupCache(params)
JuliaClose(r) ==
    /\ jgen[r].pc = "wait"
    /\ jgen[r].wg = 0
    /\ jgen' = [jgen EXCEPT ![r].pc = "cleanup", ![r].closed = TRUE]
    /\ UNCHANGED <<wsvars, pixel, jh, jtasks, jcache, jheap, jnow>>

\* tile goroutine: key, tileCache.Load(key)
JTaskLoad(t) ==
    /\ jtasks[t].pc = "start"
    /\ jtasks' = [jtasks EXCEPT ![t] =
                     IF JTaskKey(t) \in DOMAIN jcache
                     THEN [pc |-> "touch", hit |-> TRUE, tile |-> jcache[JTaskKey(t)]]
                     ELSE [pc |-> "render", hit |-> FALSE, tile |-> <<>>]]
    /\ UNCHANGED <<wsvars, pixel, jh, jgen, jcache, jheap, jnow>>

\* tile goroutine, hit: tile.LastUsed = time.Now()
JTaskTouch(t) ==
    /\ jtasks[t].pc = "touch"
    /\ jnow' = jnow + 1
    /\ jheap' = [jheap EXCEPT ![jtasks[t].tile].LastUsed = jnow + 1]
    /\ jtasks' = [jtasks EXCEPT ![t].pc = "store"]
    /\ UNCHANGED <<wsvars, pixel, jh, jgen, jcache>>

\* tile goroutine, miss: generateJuliaTile; tile.LastUsed = time.Now()
JTaskRender(t) ==
    /\ jtasks[t].pc = "render"
    /\ jnow' = jnow + 1
    /\ jheap' = MapSet(jheap, t,
           [generateJuliaTile_0(jh[t[1]].params, t[2][1], t[2][2])
               EXCEPT !.LastUsed = jnow + 1])
    /\ jtasks' = [jtasks EXCEPT ![t].pc = "store", ![t].tile = t]
    /\ UNCHANGED <<wsvars, pixel, jh, jgen, jcache>>

\* tile goroutine: tileCache.Store(key, tile)
JTaskStore(t) ==
    /\ jtasks[t].pc = "store"
    /\ jcache' = MapSet(jcache, JTaskKey(t), jtasks[t].tile)
    /\ jtasks' = [jtasks EXCEPT ![t].pc = "send"]
    /\ UNCHANGED <<wsvars, pixel, jh, jgen, jheap, jnow>>

\* tile goroutine: "modifiedTiles <- tile" when the buffer has room; wg.Done()
JTaskSend(t) ==
    /\ jtasks[t].pc = "send"
    /\ Len(jgen[t[1]].buf) < ChanCap
    /\ jgen' = [jgen EXCEPT ![t[1]].buf = Append(@, jtasks[t].tile), ![t[1]].wg = @ - 1]
    /\ jtasks' = [jtasks EXCEPT ![t].pc = "done"]
    /\ UNCHANGED <<wsvars, pixel, jh, jcache, jheap, jnow>>

\* what tileCache.Range can report when it began with the map base and ends
\* with the map cur (nothing is deleted meanwhile): every entry of base, as it
\* was or as it is, and any of the entries stored since
RangeViews(base, cur) ==
    {m \in UNION {[d -> DOMAIN jheap] : d \in SUBSET DOMAIN cur} :
        /\ DOMAIN base \subseteq DOMAIN m
        /\ \A k \in DOMAIN m :
              m[k] = cur[k] \/ (k \in DOMAIN base /\ m[k] = base[k])}

\* the orders sort.Slice can leave the tiles in: LastUsed ascending
SortedByLastUsed(ts) ==
    {sq \in [1..Cardinality(ts) -> ts] :
        /\ \A i, j \in 1..Cardinality(ts) : i # j => sq[i] # sq[j]
        /\ \A i, j \in 1..Cardinality(ts) :
              i < j => jheap[sq[i]].LastUsed <= jheap[sq[j]].LastUsed}

MutexHeld == \E r \in RequestIds : jgen[r].pc \in {"range", "delete"}

\* cleanupCache: tileCacheMutex.Lock(); tileCache.Range begins
CleanupLock(r) ==
    /\ jgen[r].pc = "cleanup"
    /\ ~MutexHeld
    /\ jgen' = [jgen EXCEPT ![r].pc = "range", ![r].base = jcache]
    /\ UNCHANGED <<wsvars, pixel, jh, jtasks, jcache, jheap, jnow>>

\* cleanupCache: Range ends; "if len(tiles) > MaxCacheSize" sort.Slice by
\* LastUsed, the first len(tiles)-MaxCacheSize tiles are to be removed;
\* otherwise return (Unlock)
CleanupRange(r) ==
    /\ jgen[r].pc = "range"
    /\ \E m \in RangeViews(jgen[r].base, jcache) :
          LET tiles == {m[k] : k \in DOMAIN m}
          IN IF Cardinality(tiles) > MaxCacheSize
             THEN \E sq \in SortedByLastUsed(tiles) :
                     jgen' = [jgen EXCEPT ![r].pc = "delete", ![r].base = <<>>,
                                 ![r].victims = SubSeq(sq, 1, Cardinality(tiles) - MaxCacheSize)]
             ELSE jgen' = [jgen EXCEPT ![r].pc = "done", ![r].base = <<>>]
    /\ UNCHANGED <<wsvars, pixel, jh, jtasks, jcache, jheap, jnow>>

\* cleanupCache: tileCache.Delete(getTileKey(params, tiles[i].X, tiles[i].Y));
\* after the last one, return (Unlock)
CleanupDelete(r) ==
    /\ jgen[r].pc = "delete"
    /\ LET tile == jheap[Head(jgen[r].victims)]
       IN jcache' = MapDelete(jcache, getTileKey_0(jh[r].params, tile.X, tile.Y))
    /\ jgen' = [jgen EXCEPT ![r].victims = Tail(@),
                            ![r].pc = IF Len(jgen[r].victims) = 1 THEN "done" ELSE "delete"]
    /\ UNCHANGED <<wsvars, pixel, jh, jtasks, jheap, jnow>>

JuliaHandlerStep(r) ==
    \/ JuliaReceive(r)
    \/ JuliaRespond(r)

JuliaSetStep(r) ==
    \/ JuliaSchedule(r)
    \/ JuliaClose(r)
    \/ CleanupLock(r)
    \/ CleanupRange(r)
    \/ CleanupDelete(r)

JTaskStep(t) ==
    \/ JTaskLoad(t)
    \/ JTaskTouch(t)
    \/ JTaskRender(t)
    \/ JTaskStore(t)
    \/ JTaskSend(t)

JuliaNext ==
    \/ \E r \in RequestIds : JuliaDecodeError(r) \/ JuliaStart(r)
    \/ \E r \in RequestIds : JuliaHandlerStep(r)
    \/ \E r \in RequestIds : JuliaSetStep(r)
    \/ \E t \in JTaskIds : JTaskStep(t)

\* every goroutine that can take a step is scheduled in the end; when a
\* request arrives is up to the client
JuliaFairness ==
    /\ \A r \in RequestIds : WF_vars(JuliaHandlerStep(r))
    /\ \A r \in RequestIds : WF_vars(JuliaSetStep(r))
    /\ \A t \in JTaskIds : WF_vars(JTaskStep(t))

\* the server of part_000 on its own, no websocket connection
JuliaInit == Start(0) /\ JuliaIdle /\ PixelIdle

JuliaSpec == JuliaInit /\ [][JuliaNext]_vars /\ JuliaFairness

\* ---------------------------------------------- color_algorithms.go
\* color.RGBA{0, 0, 0, 255}, which img.Set makes of color.Black as well
Black == <<"RGBA", 0, 0, 0, 255>>

\* A coloring routine: the first return when i == maxIterations, otherwise a
\* color computed from its arguments by floating-point formulas, which is
\* kept as the term of the routine and its arguments.
Routine(name, i, maxIterations, z) ==
    IF i = maxIterations THEN Black ELSE <<name, i, maxIterations, z>>

SmoothColorHSV(i, maxIterations, z) == Routine("SmoothColorHSV", i, maxIterations, z)
StripePattern(i, maxIterations, z) == Routine("StripePattern", i, maxIterations, z)
ElectricPlasma(i, maxIterations, z) == Routine("ElectricPlasma", i, maxIterations, z)
PsychedelicSwirl(i, maxIterations, z) == Routine("PsychedelicSwirl", i, maxIterations, z)
MetallicSheen(i, maxIterations, z) == Routine("MetallicSheen", i, maxIterations, z)
RainbowSpiral(i, maxIterations, z) == Routine("RainbowSpiral", i, maxIterations, z)
AutumnLeaves(i, maxIterations, z) == Routine("AutumnLeaves", i, maxIterations, z)
OceanDepths(i, maxIterations, z) == Routine("OceanDepths", i, maxIterations, z)
MoltenLava(i, maxIterations, z) == Routine("MoltenLava", i, maxIterations, z)
GreyPalette(i, maxIterations, z) == Routine("GreyPalette", i, maxIterations, z)

AlternateAlgorithms(i, maxIterations, z, x, y) ==
    IF (x + y) % 2 = 0 THEN ElectricPlasma(i, maxIterations, z)
    ELSE AutumnLeaves(i, maxIterations, z)

\* a weighted mix of three colors, with no early return
MixMultipleAlgorithms(i, maxIterations, z) ==
    <<"MixMultipleAlgorithms", StripePattern(i, maxIterations, z),
      MetallicSheen(i, maxIterations, z), OceanDepths(i, maxIterations, z),
      i, maxIterations>>

\* a switch whose default rejects the id
ReturnRGBAStrict(coloring, i, maxIterations, z, x, y) ==
    CASE coloring = 1 -> SmoothColorHSV(i, maxIterations, z)
      [] coloring = 2 -> StripePattern(i, maxIterations, z)
      [] coloring = 3 -> ElectricPlasma(i, maxIterations, z)
      [] coloring = 4 -> PsychedelicSwirl(i, maxIterations, z)
      [] coloring = 5 -> MetallicSheen(i, maxIterations, z)
      [] coloring = 6 -> RainbowSpiral(i, maxIterations, z)
      [] coloring = 7 -> AutumnLeaves(i, maxIterations, z)
      [] coloring = 8 -> OceanDepths(i, maxIterations, z)
      [] coloring = 9 -> MoltenLava(i, maxIterations, z)
      [] coloring = 10 -> GreyPalette(i, maxIterations, z)
      [] coloring = 11 -> AlternateAlgorithms(i, maxIterations, z, x, y)
      [] coloring = 12 -> MixMultipleAlgorithms(i, maxIterations, z)
      [] OTHER -> Black

ReturnRGBA(coloring, i, maxIterations, z, x, y) ==
    CASE coloring = 1 -> SmoothColorHSV(i, maxIterations, z)
      [] coloring = 2 -> StripePattern(i, maxIterations, z)
      [] coloring = 3 -> ElectricPlasma(i, maxIterations, z)
      [] coloring = 4 -> PsychedelicSwirl(i, maxIterations, z)
      [] coloring = 5 -> MetallicSheen(i, maxIterations, z)
      [] coloring = 6 -> RainbowSpiral(i, maxIterations, z)
      [] coloring = 7 -> AutumnLeaves(i, maxIterations, z)
      [] coloring = 8 -> OceanDepths(i, maxIterations, z)
      [] coloring = 9 -> MoltenLava(i, maxIterations, z)
      [] coloring = 10 -> GreyPalette(i, maxIterations, z)
      [] coloring = 11 -> AlternateAlgorithms(i, maxIterations, z, x, y)
      [] coloring = 12 -> MixMultipleAlgorithms(i, maxIterations, z)
      [] OTHER -> SmoothColorHSV(i, maxIterations, z)

\* ------------------------------------------ generateJuliaTile, one pixel
\* complex128 values whose parts are small integers (exact in float64)
CMul(a, b) == <<a[1] * b[1] - a[2] * b[2], a[1] * b[2] + a[2] * b[1]>>
CAdd(a, b) == <<a[1] + b[1], a[2] + b[2]>>

\* a test that takes the circle of radius 2 for escaped
EscapedOnCircle(z) == z[1] * z[1] + z[2] * z[2] >= 4

\* "cmplx.Abs(z) > 2"
Escaped(z) == z[1] * z[1] + z[2] * z[2] > 4

\* the points z = complex(x, y), the constants c, the coloring ids and the
\* pixel coordinates tileX+px, tileY+py tried
Points == (-3..3) \X (-1..1)
Constants == {<<0, 0>>, <<-1, 0>>, <<1, 0>>, <<0, 1>>}
ColoringIds == -1..14
PixelCoords == {<<0, 0>>, <<1, 0>>}

\* the pixel loop body begins: "z := complex(x, y)", "i = 0"
PixelInit ==
    /\ Start(0)
    /\ JuliaIdle
    /\ pixel \in {[NoPixel EXCEPT !.pc = "loop", !.c = c, !.point = z, !.z = z,
                                  !.maxIter = m, !.coloring = k,
                                  !.x = xy[1], !.y = xy[2]] :
                     c \in Constants, z \in Points, m \in 1..MaxIterations,
                     k \in {1, 11}, xy \in PixelCoords}

\* "if cmplx.Abs(z) > 2 { break }"
PixelBreak ==
    /\ pixel.pc = "loop"
    /\ pixel.i < pixel.maxIter
    /\ Escaped(pixel.z)
    /\ pixel' = [pixel EXCEPT !.pc = "classify"]
    /\ UNCHANGED <<wsvars, jvars>>

\* "z = z*z + c", "i++"
PixelIterate ==
    /\ pixel.pc = "loop"
    /\ pixel.i < pixel.maxIter
    /\ ~Escaped(pixel.z)
    /\ pixel' = [pixel EXCEPT !.z = CAdd(CMul(pixel.z, pixel.z), pixel.c), !.i = @ + 1]
    /\ UNCHANGED <<wsvars, jvars>>

\* "i < params.MaxIterations" fails: the loop ends
PixelLoopEnds ==
    /\ pixel.pc = "loop"
    /\ ~(pixel.i < pixel.maxIter)
    /\ pixel' = [pixel EXCEPT !.pc = "classify"]
    /\ UNCHANGED <<wsvars, jvars>>

\* "rgba := ReturnRGBA(params.Coloring, i, params.MaxIterations, z, tileX+px,
\* tileY+py)"
CallReturnRGBA ==
    pixel' = [pixel EXCEPT !.pc = "done",
                 !.rgba = ReturnRGBA(pixel.coloring, pixel.i, pixel.maxIter,
                                     pixel.z, pixel.x, pixel.y)]

\* "if i < params.MaxIterations": img.Set(px, py, rgba)
PixelColor ==
    /\ pixel.pc = "classify"
    /\ pixel.i < pixel.maxIter
    /\ CallReturnRGBA
    /\ UNCHANGED <<wsvars, jvars>>

\* else: img.Set(px, py, color.Black)
PixelBlack ==
    /\ pixel.pc = "classify"
    /\ ~(pixel.i < pixel.maxIter)
    /\ pixel' = [pixel EXCEPT !.pc = "done", !.rgba = Black]
    /\ UNCHANGED <<wsvars, jvars>>

PixelNext ==
    \/ PixelBreak
    \/ PixelIterate
    \/ PixelLoopEnds
    \/ PixelColor
    \/ PixelBlack

PixelSpec == PixelInit /\ [][PixelNext]_vars

\* ReturnRGBA as a function of its arguments: any coloring id, any i up to
\* maxIterations
ColorInit ==
    /\ Start(0)
    /\ JuliaIdle
    /\ pixel \in {[NoPixel EXCEPT !.pc = "call", !.z = z, !.i = i, !.maxIter = m,
                                  !.coloring = k, !.x = xy[1], !.y = xy[2]] :
                     z \in {<<3, 0>>, <<0, -3>>}, m \in 1..MaxIterations,
                     i \in 0..MaxIterations, k \in ColoringIds, xy \in PixelCoords}

ColorNext ==
    /\ pixel.pc = "call"
    /\ CallReturnRGBA
    /\ UNCHANGED <<wsvars, jvars>>

ColorSpec == ColorInit /\ [][ColorNext]_vars

\* ========================================================== properties
CacheLen == Cardinality(DOMAIN cache)
CacheIdle == \A t \in TaskIds : ~InCacheOp(tasks[t])

\* C1: whenever no cache operation is in progress the cache holds at most
\* MaxCacheSize entries, and it never holds more than MaxCacheSize + 1.
C1_CacheBound ==
    /\ CacheLen <= MaxCacheSize + 1
    /\ CacheIdle => CacheLen <= MaxCacheSize

\* the tasks whose cacheTile has returned
Inserters == {t \in TaskIds : tasks[t].pc \in {"send", "done"} /\ ~tasks[t].hit}
Retained == {cache[k] : k \in DOMAIN cache}

\* the inserts so far were made one after another, of pairwise distinct keys,
\* with no cache hit and no cache operation left in progress
SequentialInserts ==
    /\ serial
    /\ CacheIdle
    /\ \A t \in TaskIds : ~tasks[t].hit
    /\ \A t1, t2 \in Inserters : t1 # t2 => TaskKey(t1) # TaskKey(t2)

\* the tasks generateJuliaSet has launched for batch b, and those whose send
\* has been received
Launched(b) == {t \in TaskIds : BatchOf(t) = b /\ tasks[t].pc # "none"}
Sent(b) == {t \in Launched(b) : tasks[t].pc = "done"}

\* the tile messages connection s has written for its k-th batch
OutOf(s, k) == {i \in 1..Len(out[s]) : out[s][i].batch = k}

\* C2: after MaxCacheSize + k (k > 0) sequential inserts of distinct keys
\* into the empty cache, the cache holds exactly MaxCacheSize entries, and
\* they are the most recently accessed of the inserted tiles.
C2_SequentialEviction ==
    (SequentialInserts /\ Cardinality(Inserters) > MaxCacheSize) =>
        /\ CacheLen = MaxCacheSize
        /\ Retained \subseteq Inserters
        /\ \A r \in Retained : \A e \in Inserters \ Retained :
              heap[e].LastAccessed <= heap[r].LastAccessed

C2_Witness ==
    /\ SequentialInserts
    /\ Cardinality(Inserters) = MaxCacheSize + 2
    /\ CacheLen = MaxCacheSize

\* the stream of batch b is over: its channel is closed and the range loop of
\* its connection has ended
StreamOver(b) ==
    /\ sched[b].pc = "closed"
    /\ ~(sess[b[1]].batch = b[2] /\ sess[b[1]].st = "Streaming")

FanOutJoin(b) ==
    /\ sched[b].pc \in {"wait", "closed"} =>
          Cardinality(Launched(b)) = Len(sched[b].asked)
    /\ Cardinality(OutOf(b[1], b[2])) <= Cardinality(Sent(b))
    /\ sched[b].pc = "closed" => Sent(b) = Launched(b)
    /\ (sched[b].pc = "closed" /\ ~sess[b[1]].werr) =>
          Cardinality(OutOf(b[1], b[2])) = Len(sched[b].asked)

\* C3: a batch of n requests launches exactly n tasks, each sends one tile,
\* the channel is closed only after all n sends, and unless a write fails the
\* connection writes exactly n tile messages and the stream ends.
C3_FanOutJoin ==
    /\ [](\A b \in BatchIds : FanOutJoin(b))
    /\ \A b \in BatchIds :
          (sched[b].pc = "sort") ~> (StreamOver(b) \/ sess[b[1]].werr)

C3_Witness ==
    \E b \in BatchIds :
        /\ StreamOver(b)
        /\ ~sess[b[1]].werr
        /\ Len(sched[b].asked) = 2
        /\ Cardinality(OutOf(b[1], b[2])) = 2

\* C5: after a write failure the connection is Closed and writes nothing
\* more, and every task of the batch already launched still finishes: the
\* join of the batch happens and its channel is closed.
C5_AbandonedTasksFinish ==
    /\ [](\A s \in Sessions : sess[s].werr => sess[s].st = "Closed")
    /\ [][\A s \in Sessions : sess[s].werr => out'[s] = out[s]]_vars
    /\ \A b \in BatchIds :
          (sess[b[1]].werr /\ sess[b[1]].batch = b[2]) ~>
              (sched[b].pc = "closed" /\ \A t \in Launched(b) : tasks[t].pc = "done")

\* batch b2 started after the channel of b1 was closed, with the same
\* configuration, offset and tile coordinates, and no entry stored under a
\* key of b1 has been evicted
WarmFor(b1, b2) ==
    /\ b1 \in sched[b2].after
    /\ sched[b2].params = sched[b1].params
    /\ sched[b2].offset = sched[b1].offset
    /\ sched[b2].asked = sched[b1].asked
    /\ \A t \in Launched(b1) : TaskKey(t) \notin deleted

Payload(t) == heap[tasks[t].tile].Image

\* C4: a batch that repeats a completed batch against the warm cache gets
\* every tile from a cache hit (no call of generateJuliaTile) and with the
\* payload the first batch got.
C4_WarmCache ==
    \A b1, b2 \in BatchIds :
        WarmFor(b1, b2) =>
            \A t2 \in Launched(b2) :
                tasks[t2].pc # "start" =>
                    /\ tasks[t2].hit
                    /\ \E t1 \in Launched(b1) :
                          /\ tasks[t1].x = tasks[t2].x
                          /\ tasks[t1].y = tasks[t2].y
                          /\ tasks[t1].lod = tasks[t2].lod
                          /\ Payload(t1) = Payload(t2)

\* the requests in the order their goroutines were launched
Dispatched(b) ==
    [i \in 1..Cardinality(Launched(b)) |->
        [x |-> tasks[<<b[1], b[2], i>>].x, y |-> tasks[<<b[1], b[2], i>>].y,
         lod |-> tasks[<<b[1], b[2], i>>].lod]]

\* squared distance of (x, y) to the canvas center, the halves being those
\* of the integer division
CenterDistance(x, y, width, height) ==
    (x - width \div 2) * (x - width \div 2) + (y - height \div 2) * (y - height \div 2)

Count(seq, e) == Cardinality({i \in 1..Len(seq) : seq[i] = e})
IsPermutation(s1, s2) ==
    /\ Len(s1) = Len(s2)
    /\ \A i \in 1..Len(s1) : Count(s1, s1[i]) = Count(s2, s1[i])

\* C6: the dispatch order puts lower lod first and, within one lod, the
\* origin nearer to the canvas center first; it is a permutation of the
\* requests.
C6_PriorityOrder ==
    \A b \in BatchIds :
        sched[b].pc \in {"wait", "closed"} =>
            LET d == Dispatched(b)
                w == sched[b].params.width
                h == sched[b].params.height
            IN /\ IsPermutation(d, sched[b].asked)
               /\ \A i, j \in 1..Len(d) :
                     i < j =>
                        /\ d[i].lod <= d[j].lod
                        /\ d[i].lod = d[j].lod =>
                              CenterDistance(d[i].x, d[i].y, w, h)
                                 <= CenterDistance(d[j].x, d[j].y, w, h)

C6_Witness ==
    \E b \in BatchIds :
        /\ sched[b].pc = "wait"
        /\ Len(sched[b].asked) = 3
        /\ Dispatched(b) # sched[b].asked
        /\ Dispatched(b)[1].lod = 1
        /\ Dispatched(b)[2].lod = 1
        /\ Dispatched(b)[3].lod = 2
        /\ CenterDistance(Dispatched(b)[1].x, Dispatched(b)[1].y,
                          sched[b].params.width, sched[b].params.height)
             < CenterDistance(Dispatched(b)[2].x, Dispatched(b)[2].y,
                              sched[b].params.width, sched[b].params.height)

\* json.Unmarshal rejects the frame, or an entry of its tile list is not "x,y"
DecodeFails(m) == ~m.json \/ \E i \in 1..Len(m.tiles) : m.tiles[i].n < 2

\* C7: a frame that fails to decode (configuration, offset or an entry of the
\* tile list) takes the connection from Decoding to Closed; no batch is
\* started for it and nothing is written.
C7_DecodeFailureIsFatal ==
    [][\A s \in Sessions :
          (sess[s].st = "Decoding" /\ DecodeFails(sess[s].msg) /\ sess'[s] # sess[s]) =>
              /\ sess'[s].st = "Closed"
              /\ sess'[s].batch = sess[s].batch
              /\ out'[s] = out[s]]_vars

InFlight(t) == tasks[t].pc \notin {"none", "done"}

\* C8: a connection reads its next frame only when the channel of its
\* current batch is closed and every tile of it written; tasks of two
\* batches of one connection are never in flight together.
C8_SequentialBatches ==
    \A s \in Sessions :
        /\ sess[s].st \in {"AwaitingMessage", "Decoding"} =>
              \A k \in 1..sess[s].batch :
                  /\ sched[<<s, k>>].pc = "closed"
                  /\ Cardinality(OutOf(s, k)) = Len(sched[<<s, k>>].asked)
        /\ \A k \in Batches :
              sched[<<s, k>>].pc \notin {"none", "closed"} => k = sess[s].batch
        /\ \A t \in TaskIds :
              (t[1] = s /\ InFlight(t)) =>
                  /\ t[2] = sess[s].batch
                  /\ sess[s].st \in {"Streaming", "Closed"}

C8_Witness ==
    \E t \in TaskIds :
        /\ InFlight(t)
        /\ t[2] = 2
        /\ sess[t[1]].st = "Streaming"
        /\ Cardinality(OutOf(t[1], 1)) > 0

\* C9: every tile request, every cache key and every tile message of a batch
\* carries lod >= 1, also when the frame supplied a lod below 1.
C9_LodClamped ==
    /\ \A b \in BatchIds : \A i \in 1..Len(sched[b].reqs) : sched[b].reqs[i].lod >= 1
    /\ \A t \in TaskIds : tasks[t].pc # "none" => TaskKey(t)[12] >= 1
    /\ \A k \in DOMAIN cache : k[12] >= 1
    /\ \A s \in Sessions : \A i \in 1..Len(out[s]) : out[s][i].lod >= 1

\* C10: a tile whose origin lies on the canvas is written with
\* width = min(TileSize, width - x) and height = min(TileSize, height - y),
\* both in 1..TileSize, from a render or from a cache hit; (256,128) on a
\* 300x200 canvas gives 44x72.
C10_BoundaryClipping ==
    \A s \in Sessions : \A i \in 1..Len(out[s]) :
        LET m == out[s][i]
            p == sched[<<s, m.batch>>].params
        IN (m.x >= 0 /\ m.x < p.width /\ m.y >= 0 /\ m.y < p.height) =>
              /\ m.width = (IF p.width - m.x < TileSize THEN p.width - m.x ELSE TileSize)
              /\ m.height = (IF p.height - m.y < TileSize THEN p.height - m.y ELSE TileSize)
              /\ m.width \in 1..TileSize
              /\ m.height \in 1..TileSize
              /\ (p.width = 300 /\ p.height = 200 /\ m.x = 256 /\ m.y = 128) =>
                    (m.width = 44 /\ m.height = 72)

C10_Witness ==
    \E t \in TaskIds :
        /\ tasks[t].hit
        /\ tasks[t].pc = "done"
        /\ \E i \in 1..Len(out[t[1]]) :
              /\ out[t[1]][i].batch = t[2]
              /\ out[t[1]][i].x = 256
              /\ out[t[1]][i].y = 128
              /\ out[t[1]][i].width = 44
              /\ out[t[1]][i].height = 72

\* what generateJuliaTile renders for the request of task t
Rendering(t) ==
    LET p == sched[BatchOf(t)].params
    IN RenderImage(p, tasks[t].x, tasks[t].y, TileWidth(p, tasks[t].x),
                   TileHeight(p, tasks[t].y), sched[BatchOf(t)].offset)

\* C11: two requests with equal keys render the same image, so the tile a
\* cache hit returns is the image of the request that hit.
C11_KeyContent ==
    /\ \A t1, t2 \in TaskIds :
          (tasks[t1].pc # "none" /\ tasks[t2].pc # "none" /\ TaskKey(t1) = TaskKey(t2)) =>
              Rendering(t1) = Rendering(t2)
    /\ \A t \in TaskIds : tasks[t].hit => Payload(t) = Rendering(t)

\* the tasks of batch b whose tile has no encoded image
Unencoded(b) ==
    {t \in Launched(b) : tasks[t].tile # NoTid /\ heap[tasks[t].tile].Image = <<>>}

\* C12: a tile whose image fails to encode is not written, with a broken
\* payload or otherwise; the other tiles of its batch are written, and the
\* batch is joined and its channel closed.
C12_EncodingFailureIsLocal ==
    /\ \A s \in Sessions : \A i \in 1..Len(out[s]) : out[s][i].image # <<>>
    /\ \A b \in BatchIds :
          (StreamOver(b) /\ ~sess[b[1]].werr) =>
              /\ Sent(b) = Launched(b)
              /\ Cardinality(OutOf(b[1], b[2]))
                    = Cardinality(Launched(b) \ Unencoded(b))

CeilDiv(a, b) == IF a % b = 0 THEN a \div b ELSE a \div b + 1

\* request r has been answered with an image
Responded(r) == jh[r].pc = "done" /\ jh[r].status = 200

\* C13: juliaHandler writes its image only when it has received and drawn
\* every tile of the canvas, ceil(width/TileSize) * ceil(height/TileSize) of
\* them, every tile task has ended and the channel is closed; nothing is
\* written before, and a request that decoded is answered in the end.
C13_WholeCanvasResponse ==
    /\ [](\A r \in RequestIds :
            /\ ~Responded(r) => jh[r].body = <<>>
            /\ Responded(r) =>
                  /\ DOMAIN jh[r].body = Grid(jh[r].params)
                  /\ Cardinality(DOMAIN jh[r].body)
                        = CeilDiv(jh[r].params.width, TileSize_0)
                            * CeilDiv(jh[r].params.height, TileSize_0)
                  /\ \A t \in JTaskIds :
                        (t[1] = r /\ t[2] \in Grid(jh[r].params)) => jtasks[t].pc = "done"
                  /\ jgen[r].closed)
    /\ \A r \in RequestIds : (jh[r].pc = "range") ~> Responded(r)

C13_Witness ==
    \E r \in RequestIds :
        /\ Responded(r)
        /\ jh[r].params.width = 300
        /\ DOMAIN jh[r].body = {<<0, 0>>, <<1, 0>>}

\* the routine registered under a coloring id of 1..12, by name
RoutineNames ==
    <<"SmoothColorHSV", "StripePattern", "ElectricPlasma", "PsychedelicSwirl",
      "MetallicSheen", "RainbowSpiral", "AutumnLeaves", "OceanDepths", "MoltenLava",
      "GreyPalette", "AlternateAlgorithms", "MixMultipleAlgorithms">>

\* the color is the work of the routine of that name
MadeBy(rgba, name, p) ==
    CASE name = "AlternateAlgorithms" ->
            rgba = AlternateAlgorithms(p.i, p.maxIter, p.z, p.x, p.y)
      [] name = "MixMultipleAlgorithms" ->
            rgba = MixMultipleAlgorithms(p.i, p.maxIter, p.z)
      [] OTHER -> rgba = Routine(name, p.i, p.maxIter, p.z)

\* C14: for a coloring id outside 1..12 ReturnRGBA returns what
\* SmoothColorHSV, the routine of id 1, returns for the same arguments; for
\* an id of 1..12 it returns what the routine of that id returns.
C14_UnknownColoringIsDefault ==
    pixel.pc = "done" =>
        IF pixel.coloring \in 1..12
        THEN MadeBy(pixel.rgba, RoutineNames[pixel.coloring], pixel)
        ELSE /\ pixel.rgba = SmoothColorHSV(pixel.i, pixel.maxIter, pixel.z)
             /\ pixel.rgba = ReturnRGBA(1, pixel.i, pixel.maxIter, pixel.z,
                                        pixel.x, pixel.y)

C14_Witness ==
    /\ pixel.pc = "done"
    /\ pixel.coloring = 13
    /\ pixel.i < pixel.maxIter
    /\ pixel.rgba = <<"SmoothColorHSV", pixel.i, pixel.maxIter, pixel.z>>

\* task t is about to store to the LastAccessed of its tile, holding no lock
StoresUnlocked(t) == tasks[t].pc = "touch"

\* task t is about to read the LastAccessed of every cached tile (the scan,
\* under the read lock)
ReadsLastAccessed(t) == tasks[t].pc = "scan"

\* the hits on tile x whose getCachedTile has returned, and those under way
HitsDone(x) ==
    {t \in TaskIds : tasks[t].hit /\ tasks[t].tile = x /\ tasks[t].pc \in {"send", "done"}}
HitsUnderWay(x) ==
    {t \in TaskIds : tasks[t].hit /\ tasks[t].tile = x /\ tasks[t].pc \in {"now", "touch", "reput"}}

\* C15: no task stores to a tile's LastAccessed outside the lock while another
\* task can store to it or read it, and once the hits on a tile have all
\* returned its LastAccessed is not earlier than the time of any of them.
C15_AtomicRefresh ==
    /\ \A t1, t2 \in TaskIds :
          (t1 # t2 /\ StoresUnlocked(t1)) =>
              /\ ~(StoresUnlocked(t2) /\ tasks[t2].tile = tasks[t1].tile)
              /\ ~(ReadsLastAccessed(t2) /\ tasks[t1].tile \in Retained)
    /\ \A x \in DOMAIN heap :
          HitsUnderWay(x) = {} =>
              \A t \in HitsDone(x) : heap[x].LastAccessed >= tasks[t].stamp

\* task t's tileCache.Delete(oldestKey) happens in this step
Evicts(t) == tasks[t].pc = "evict" /\ tasks'[t].pc # "evict"

\* C16: an entry that the capacity check of cacheTile removes is, when it is
\* removed, one with the oldest LastAccessed in the cache, and a capacity
\* check that found more than MaxCacheSize entries leaves MaxCacheSize.
C16_EvictionVictim ==
    [][\A t \in TaskIds :
          Evicts(t) =>
              /\ tasks[t].oldest \in DOMAIN cache => tasks[t].oldest \in Oldest
              /\ Cardinality(DOMAIN cache') = MaxCacheSize]_vars

\* task t's cacheTile has stored its key and has not returned
PutInProgress(t) == tasks[t].pc \in {"len", "scan", "evict"}

\* C17: while the cacheTile of a task is between its store of key K and its
\* return, no other task's eviction removes K.
C17_NoEvictionDuringPut ==
    [][\A t1, t2 \in TaskIds :
          (t1 # t2 /\ PutInProgress(t1) /\ Evicts(t2) /\ tasks[t2].oldest \in DOMAIN cache) =>
              tasks[t2].oldest # TaskKey(t1)]_vars

\* a tile without its timestamp
Content(tile) == [tile EXCEPT !.LastAccessed = 0]

\* C18: a tile once created stays allocated and keeps its X, Y, Width,
\* Height, LOD and Image through every step, whatever happens to its cache
\* entry; only its LastAccessed changes.
C18_WriteOnce ==
    [][\A x \in DOMAIN heap :
          /\ x \in DOMAIN heap'
          /\ Content(heap'[x]) = Content(heap[x])]_vars

\* a tile delivered from a cache hit, since refreshed, whose entry has been
\* evicted
C18_Witness ==
    \E t \in TaskIds :
        /\ tasks[t].pc = "done"
        /\ tasks[t].hit
        /\ tasks[t].tile \notin Retained
        /\ TaskKey(t) \in deleted
        /\ heap[tasks[t].tile].LastAccessed = tasks[t].stamp
        /\ heap[tasks[t].tile].Image = Rendering(tasks[t].tile)
        /\ \E i \in 1..Len(out[t[1]]) : out[t[1]][i].image = heap[tasks[t].tile].Image

\* |z| > 2
Outside(z) == z[1] * z[1] + z[2] * z[2] > 4

\* z_k of the orbit z_0 = point, z_{k+1} = z_k * z_k + c
RECURSIVE Orbit(_, _, _)
Orbit(point, c, k) ==
    IF k = 0 THEN point
    ELSE LET z == Orbit(point, c, k - 1)
         IN <<z[1] * z[1] - z[2] * z[2] + c[1], 2 * z[1] * z[2] + c[2]>>

\* the algorithm as specified: apply z = z*z + c, increment iterations, stop
\* when |z| > 2 or iterations = maxIterations
RECURSIVE Evaluate(_, _, _, _)
Evaluate(z, c, iterations, maxIterations) ==
    LET z1 == <<z[1] * z[1] - z[2] * z[2] + c[1], 2 * z[1] * z[2] + c[2]>>
    IN IF Outside(z1) \/ iterations + 1 = maxIterations
       THEN [iterations |-> iterations + 1, finalZ |-> z1]
       ELSE Evaluate(z1, c, iterations + 1, maxIterations)

\* the pixel is opaque black exactly when iterations = maxIterations and has
\* the color of the coloring capability for (iterations, maxIterations,
\* finalZ, pixelX, pixelY) otherwise
Classified ==
    /\ pixel.rgba = <<"RGBA", 0, 0, 0, 255>> <=> pixel.i = pixel.maxIter
    /\ pixel.i # pixel.maxIter =>
          pixel.rgba = ReturnRGBA(pixel.coloring, pixel.i, pixel.maxIter, pixel.z,
                                  pixel.x, pixel.y)

\* C19, as stated: the pixel loop returns the iteration count and the final z
\* of the specified algorithm for every orbit, and classifies the pixel by
\* iterations = maxIterations.
C19_EvaluatorAsSpecified ==
    pixel.pc = "done" =>
        /\ pixel.i = Evaluate(pixel.point, pixel.c, 0, pixel.maxIter).iterations
        /\ pixel.z = Evaluate(pixel.point, pixel.c, 0, pixel.maxIter).finalZ
        /\ Classified

\* C19, amended: the test |z| > 2 comes before each step. The loop returns
\* the least k below maxIterations with |z_k| > 2, or maxIterations when
\* there is none, and z_k; that is the result of the specified algorithm for
\* every point with |point| <= 2, and (0, point) for a point with |point| > 2.
C19_EscapeTestFirst ==
    pixel.pc = "done" =>
        /\ pixel.i \in 0..pixel.maxIter
        /\ pixel.i < pixel.maxIter => Outside(Orbit(pixel.point, pixel.c, pixel.i))
        /\ \A k \in 0..(pixel.i - 1) : ~Outside(Orbit(pixel.point, pixel.c, k))
        /\ pixel.z = Orbit(pixel.point, pixel.c, pixel.i)
        /\ ~Outside(pixel.point) =>
              /\ pixel.i = Evaluate(pixel.point, pixel.c, 0, pixel.maxIter).iterations
              /\ pixel.z = Evaluate(pixel.point, pixel.c, 0, pixel.maxIter).finalZ
        /\ Outside(pixel.point) => (pixel.i = 0 /\ pixel.z = pixel.point)
        /\ Classified

C19_Witness ==
    /\ pixel.pc = "done"
    /\ pixel.point = <<3, 0>>
    /\ pixel.i = 0
    /\ pixel.z = <<3, 0>>
    /\ pixel.rgba = <<"SmoothColorHSV", 0, pixel.maxIter, <<3, 0>>>>

\* the tileCache.Set of task t's getCachedTile happens in this step
Reputs(t) == tasks[t].pc = "reput" /\ tasks'[t].pc # "reput"

\* C20: the write-back of a cache hit leaves the set of cached keys as it is:
\* it does not bring back a key evicted since the lookup, and it does not
\* raise the number of entries.
C20_HitAddsNoEntry ==
    [][\A t \in TaskIds :
          Reputs(t) =>
              /\ DOMAIN cache' = DOMAIN cache
              /\ Cardinality(DOMAIN cache') <= Cardinality(DOMAIN cache)]_vars

\* (X, Y, LOD) of a tile, as a request
Answered(tile) == [x |-> tile.X, y |-> tile.Y, lod |-> tile.LOD]

\* the tiles of batch b whose send on the channel has happened that answer
\* request e
Emitted(b, e) == {t \in Sent(b) : Answered(heap[tasks[t].tile]) = e}

\* C21: the multiset of (X, Y, LOD) of the tiles sent on the channel of a batch
\* is contained in the multiset of its requests at every moment and equals it
\* once the channel is closed, whichever task, batch or connection has stored
\* the tiles that come from the cache.
C21_TilesAnswerRequests ==
    \A b \in BatchIds :
        \A e \in {Answered(heap[x]) : x \in DOMAIN heap}
                  \cup {sched[b].asked[i] : i \in 1..Len(sched[b].asked)} :
            /\ Cardinality(Emitted(b, e)) <= Count(sched[b].asked, e)
            /\ sched[b].pc = "closed" =>
                  Cardinality(Emitted(b, e)) = Count(sched[b].asked, e)

\* a closed batch of two requests, one of them answered with a tile that a
\* task of another connection has stored, the batch of which is still open
C21_Witness ==
    \E t \in TaskIds :
        /\ sched[BatchOf(t)].pc = "closed"
        /\ Len(sched[BatchOf(t)].asked) = 2
        /\ tasks[t].hit
        /\ tasks[t].tile[1] # t[1]
        /\ sched[BatchOf(tasks[t].tile)].pc = "wait"
        /\ Answered(heap[tasks[t].tile]) = [x |-> 256, y |-> 128, lod |-> 1]

\* the channel of batch b has been closed
ChannelClosed(b) == sched[b].pc = "closed"

\* a task of batch b has still to send, or is sending: were the channel
\* closed, its "ch <- tile" would panic
HasToSend(t) == tasks[t].pc \notin {"none", "done"}

\* close(ch) of batch b happens in this step
Closes(b) == ~ChannelClosed(b) /\ sched'[b].pc = "closed"

\* C22: the channel of every batch is closed once: it is closed in the end,
\* also when the connection has stopped receiving after a write failure, and
\* never a second time; no task of the batch has its send ahead of it or
\* under way when the channel is closed or afterwards.
C22_ChannelDiscipline ==
    /\ [](\A t \in TaskIds : ChannelClosed(BatchOf(t)) => ~HasToSend(t))
    /\ [][\A b \in BatchIds :
            /\ ChannelClosed(b) => sched'[b] = sched[b]
            /\ Closes(b) => (sched[b].pc = "wait" /\ sched[b].wg = 0)]_vars
    /\ \A b \in BatchIds : (sched[b].pc = "sort") ~> ChannelClosed(b)

\* cleanupCache of request r holds the mutex
InCleanup(r) == jgen[r].pc \in {"range", "delete"}

\* cleanupCache of request r is running and no Store is concurrent with it:
\* every other request either has not launched its tile tasks or had ended
\* its own cleanupCache before this one took the mutex
Quiet(r) ==
    /\ InCleanup(r)
    /\ \A r2 \in RequestIds \ {r} : jgen[r2].pc \in {"none", "launch", "done"}

\* cleanupCache of request r returns in this step
CleanupEnds(r) == InCleanup(r) /\ jgen'[r].pc = "done"

\* C23: a cleanupCache that runs with no concurrent store leaves at most
\* MaxCacheSize entries when it returns, and every entry it removes has a
\* LastUsed not later than that of any entry it leaves, whatever params the
\* tiles were stored under.
C23_CleanupRemovesOldest ==
    [][\A r \in RequestIds :
          Quiet(r) =>
              /\ CleanupEnds(r) => Cardinality(DOMAIN jcache') <= MaxCacheSize
              /\ \A k \in DOMAIN jcache \ DOMAIN jcache' :
                    \A k2 \in DOMAIN jcache' :
                        jheap[jcache[k]].LastUsed <= jheap[jcache[k2]].LastUsed]_vars

====
